---- MODULE Spec2Model ----
(***************************************************************************)
(* Lakehouse metadata discovery engine: format detector, per-format        *)
(* readers, normalizer, SQLite metadata store and the discovery engine     *)
(* that chains them (src/src/main.py and the packages it imports).         *)
(*                                                                         *)
(* Conventions of the model                                                *)
(*   - Optional values (Python None) are sequences of length <= 1:         *)
(*     <<>> is None, <<v>> is the value v.                                 *)
(*   - An S3 path "s3://b/x/y" is the sequence of its "/"-separated parts  *)
(*     after the scheme, <<"b","x","y">>; a trailing "/" is a final "".    *)
(*   - A type string such as "decimal(10,2)" is the record                 *)
(*     [base |-> "decimal", args |-> "(10,2)"] (the text before the first  *)
(*     "(" and the text from it on).                                       *)
(*   - datetime values are integers read from the clock `now`.             *)
(***************************************************************************)
EXTENDS Integers, Sequences, FiniteSets, TLC

VARIABLES
    db,      \* the committed content of the SQLite catalog
    now,     \* the wall clock read by datetime.now()
    resp,    \* outcome of the last engine call made by the sequential caller
    cl,      \* per-client state of calls in flight (statement-level interleaving)
    lock,    \* the connection holding SQLite's write (RESERVED) lock, or "none"
    hist     \* every TableMetadata view a commit has made visible (history)

vars == <<db, now, resp, cl, lock, hist>>

\* ------------------------------------------------------------------ bounds
MaxClock == 1
MaxId == 2

\* ------------------------------------------------------------ basic values
None == <<>>
Some(v) == <<v>>

EmptyProps == [k \in {} |-> ""]
Put(f, k, v) == [x \in (DOMAIN f) \cup {k} |-> IF x = k THEN v ELSE f[x]]

\* str(n) for the small integers the model uses
Str(n) == <<"0", "1", "2", "3", "4", "5", "6", "7", "8">>[n + 1]

SeqToSet(s) == {s[i] : i \in 1..Len(s)}

\* ---------------------------------------------------------------- formats
ICEBERG == "ICEBERG"
DELTA == "DELTA"
HUDI == "HUDI"
UNKNOWN == "UNKNOWN"

\* ------------------------------------------------- object-store fixtures
\* What the object store holds under a table prefix, as far as the
\* pipeline looks at it.
\* kind "str": a type name; "nested": a JSON object whose "type" is base;
\* "union": an Avro union (members); "null": JSON null.
TStr(base) == [kind |-> "str", base |-> base, args |-> "", members |-> <<>>]
TParam(base, args) == [kind |-> "str", base |-> base, args |-> args, members |-> <<>>]
TNested(base) == [kind |-> "nested", base |-> base, args |-> "", members |-> <<>>]
TUnion(members) == [kind |-> "union", base |-> "", args |-> "", members |-> members]
TNull == [kind |-> "null", base |-> "", args |-> "", members |-> <<>>]

SrcField(id, name, type, required, nullable) ==
    [id |-> id, name |-> name, type |-> type, required |-> required,
     nullable |-> nullable, doc |-> None]

\* The three directories the detector lists, in the order it lists them.
Sentinels == <<"metadata/", "_delta_log/", ".hoodie/">>

\* One commit file of a Hudi timeline.  kind is what fetching and parsing it
\* gives: "schema" (JSON whose metadata.schema has fields), "plain" (JSON
\* with no metadata.schema, or a schema without fields, or a schema string
\* that is not JSON), "notjson", "nullmeta" (JSON whose "metadata" is null)
\* or "unfetchable" (get_object answers a ClientError).
Commit(kind, fields) == [kind |-> kind, fields |-> fields]

\* One metaData action of a Delta log file: each member is None when the
\* action does not carry the key.  schemaString is [parses, fields].
MetaData(name, description, schemaString, partitionColumns, configuration) ==
    [name |-> name, description |-> description, schemaString |-> schemaString,
     partitionColumns |-> partitionColumns, configuration |-> configuration]

MetaDataAction(body) == [kind |-> "metaData", body |-> body]
ProtocolAction(minReaderVersion, minWriterVersion) ==
    [kind |-> "protocol",
     body |-> [minReaderVersion |-> minReaderVersion,
               minWriterVersion |-> minWriterVersion]]

\* keys: the objects under the table prefix, each <<directory, file name>>
\* with directory "" for an object directly under the prefix.
\* list: what list_objects_v2 does for each listed directory: "ok" (answers),
\* a ClientError code, or "Timeout" (an exception that is not a ClientError).
\* Iceberg: hintTarget is the content of metadata/version-hint.text (when
\*   that key exists); modified gives LastModified of the metadata files
\*   (0 where unlisted); fields .. formatVersion are the content of every
\*   metadata file; topLevelSpec says whether "partition-spec" is a "list"
\*   (specIds), "absent" or some other JSON value ("object"); partitionSpecs
\*   is "partition-specs" and defaultSpecId "default-spec-id".
\* Delta: every log file holds the actions `earlier`, then one metaData
\*   action made of name, description, schemaString ("ok", "missing" or
\*   "unparseable"; fields is its content), partNames and props, then the
\*   protocol action if there is one; corrupt says that the log file of the
\*   highest version ends in a truncated line.
\* Hudi: props is the content of .hoodie/hoodie.properties (when that key
\*   exists); commits is the timeline in LastModified order.
\* corrupt, for Iceberg: the metadata files are not JSON.
NoTable ==
    [keys |-> {}, list |-> [d \in SeqToSet(Sentinels) |-> "ok"],
     corrupt |-> FALSE,
     fields |-> <<>>, specIds |-> <<>>, partNames |-> <<>>,
     props |-> EmptyProps, name |-> None,
     snapshots |-> 0, currentSnapshotId |-> None, formatVersion |-> 1,
     protocol |-> None,
     hintTarget |-> "v1.metadata.json", modified |-> [n \in {} |-> 0],
     topLevelSpec |-> "list", partitionSpecs |-> <<>>, defaultSpecId |-> 0,
     schemaString |-> "ok", description |-> None, earlier |-> <<>>,
     commits |-> <<>>]

\* S1: Iceberg, schema [order_id long required (id 1), region string (id 5)],
\* partitioned by source-id 5, one snapshot, format-version 2.
IcebergTable ==
    [NoTable EXCEPT
        !.keys = {<<"metadata/", "v1.metadata.json">>,
                  <<"metadata/", "version-hint.text">>},
        !.fields = << SrcField(1, "order_id", TStr("long"), TRUE, FALSE),
                      SrcField(5, "region", TStr("string"), FALSE, TRUE) >>,
        !.specIds = <<5>>,
        !.props = Put(EmptyProps, "owner", "etl"),
        !.snapshots = 1,
        !.currentSnapshotId = Some(7),
        !.formatVersion = 2]

\* S2: Delta, schema [id long not null, dt date], partitionColumns [dt].
DeltaTable ==
    [NoTable EXCEPT
        !.keys = {<<"_delta_log/", "00000000000000000000.json">>},
        !.fields = << SrcField(0, "id", TStr("long"), FALSE, FALSE),
                      SrcField(0, "dt", TStr("date"), FALSE, TRUE) >>,
        !.partNames = <<"dt">>,
        !.protocol = Some([minReaderVersion |-> 1, minWriterVersion |-> 2])]

\* S6: the latest Delta log file ends in a truncated line.
DeltaCorrupt == [DeltaTable EXCEPT !.corrupt = TRUE]

\* Delta whose partitionColumns names a column absent from the schema.
DeltaGhostPartition == [DeltaTable EXCEPT !.partNames = <<"ghost">>]

\* Delta whose schemaString repeats a column name.
DeltaDupColumn ==
    [DeltaTable EXCEPT
        !.fields = << SrcField(0, "id", TStr("long"), FALSE, FALSE),
                      SrcField(0, "dt", TStr("date"), FALSE, TRUE),
                      SrcField(0, "id", TParam("decimal", "(10,2)"), FALSE, TRUE) >>]

\* Delta whose schemaString has a field with "type": null.
DeltaNullType ==
    [DeltaTable EXCEPT
        !.fields = << SrcField(0, "id", TNull, FALSE, FALSE) >>]

\* S3: Hudi COPY_ON_WRITE named t1, partition field region, two commits,
\* none of which embeds a schema.  props is the content of hoodie.properties.
HudiTable ==
    [NoTable EXCEPT
        !.keys = {<<".hoodie/", "hoodie.properties">>},
        !.props = [k \in {"hoodie.table.name", "hoodie.table.type",
                          "hoodie.table.partition.fields"} |->
                     CASE k = "hoodie.table.name" -> "t1"
                       [] k = "hoodie.table.type" -> "COPY_ON_WRITE"
                       [] OTHER -> "region"],
        !.commits = <<Commit("plain", <<>>), Commit("plain", <<>>)>>]

Layouts ==
    {NoTable, IcebergTable, DeltaTable, DeltaCorrupt, DeltaGhostPartition,
     DeltaDupColumn, DeltaNullType, HudiTable}

Paths == { <<"b", "t1">>, <<"b", "t2">> }

\* ------------------------------------------------------------- detector
ClientErrorCodes == {"AccessDenied", "NoSuchBucket", "NotFound"}

\* A probe that answers False on every exception, ClientError included.
CheckDirectoryExistsSwallow(l, directory) ==
    [raised |-> FALSE,
     exists |-> l.list[directory] = "ok" /\ \E k \in l.keys : k[1] = directory,
     cause |-> ""]

\* list_objects_v2(Prefix = prefix + directory, MaxKeys = 1): a ClientError
\* is raised as FormatDetectionError carrying the code; any other exception
\* is logged and answered False; otherwise 'Contents' non-empty.
CheckDirectoryExists(l, directory) ==
    IF l.list[directory] \in ClientErrorCodes
    THEN [raised |-> TRUE, exists |-> FALSE, cause |-> l.list[directory]]
    ELSE IF l.list[directory] # "ok"
    THEN [raised |-> FALSE, exists |-> FALSE, cause |-> ""]
    ELSE [raised |-> FALSE, exists |-> \E k \in l.keys : k[1] = directory,
          cause |-> ""]

DetectResult(ok, format, cause, probes) ==
    [ok |-> ok, format |-> format,
     err |-> IF ok THEN "" ELSE "FormatDetectionError",
     cause |-> cause, probes |-> probes]

\* probes: the directories listed, in order, until the call returned or raised
DetectFormat(l) ==
    LET p1 == CheckDirectoryExists(l, "metadata/")
        p2 == CheckDirectoryExists(l, "_delta_log/")
        p3 == CheckDirectoryExists(l, ".hoodie/")
    IN IF p1.raised THEN DetectResult(FALSE, UNKNOWN, p1.cause, SubSeq(Sentinels, 1, 1))
       ELSE IF p1.exists THEN DetectResult(TRUE, ICEBERG, "", SubSeq(Sentinels, 1, 1))
       ELSE IF p2.raised THEN DetectResult(FALSE, UNKNOWN, p2.cause, SubSeq(Sentinels, 1, 2))
       ELSE IF p2.exists THEN DetectResult(TRUE, DELTA, "", SubSeq(Sentinels, 1, 2))
       ELSE IF p3.raised THEN DetectResult(FALSE, UNKNOWN, p3.cause, Sentinels)
       ELSE IF p3.exists THEN DetectResult(TRUE, HUDI, "", Sentinels)
       ELSE DetectResult(FALSE, UNKNOWN, "", Sentinels)

\* -------------------------------------------------------------- readers
RawBase(path) ==
    [format |-> UNKNOWN, location |-> path, schema |-> <<>>,
     partition_spec |-> <<>>, partition_names |-> <<>>,
     snapshots |-> 0, current_snapshot_id |-> None,
     properties |-> EmptyProps, format_version |-> None,
     version |-> None, protocol |-> None,
     table_name |-> None, table_type |-> None,
     timeline |-> 0, supports_time_travel |-> None,
     metadata_file |-> None]

\* The most keys one list_objects_v2 call returns.  S3 answers 1000 keys a
\* call and the readers make one call; the model keeps the cut, at a size
\* its prefixes can exceed.
PageSize == 3

\* list_objects_v2(Bucket, Prefix = prefix + directory): response['Contents'],
\* one page of the keys in the order S3 lists them (UTF-8 binary; KeyOrder
\* holds the file names of the model in that order).
ListObjectsV2(l, directory) ==
    LET KeyOrder ==
            << "00000000000000000000.crc", "00000000000000000000.json",
               "00000000000000000001.json", "00000000000000000002.checkpoint.json",
               "00000000000000000002.json", "00000000000000000003.json",
               "20240101.commit",
               "_commits/00000000000000000001.a1b2.json",
               "hoodie.properties", "notes.txt", "part-0000.parquet",
               "v1.metadata.json", "v2.metadata.json", "version-hint.text" >>
        found == SelectSeq(KeyOrder, LAMBDA n : <<directory, n>> \in l.keys)
    IN SubSeq(found, 1, IF Len(found) < PageSize THEN Len(found) ELSE PageSize)

\* key.endswith('.metadata.json')
EndsWithMetadataJson(n) == n \in {"v1.metadata.json", "v2.metadata.json"}

\* key.endswith('.json') and not key.endswith('.checkpoint.json')
JsonNotCheckpoint(n) ==
    \/ EndsWithMetadataJson(n)
    \/ n \in {"00000000000000000000.json", "00000000000000000001.json",
              "00000000000000000002.json", "00000000000000000003.json",
              "_commits/00000000000000000001.a1b2.json"}

\* _get_latest_metadata_file.  _read_s3_object turns the ClientError of a
\* missing version-hint.text into MetadataReadError, which the handler
\* `except ClientError` does not catch; head_object on a missing target
\* raises ClientError, which it does.  sorted(..., reverse=True) is stable:
\* of the files modified last, the first listed is taken.
IcebergGetLatestMetadataFile(l) ==
    IF <<"metadata/", "version-hint.text">> \notin l.keys
    THEN [ok |-> FALSE, file |-> ""]
    ELSE IF <<"metadata/", l.hintTarget>> \in l.keys
    THEN [ok |-> TRUE, file |-> l.hintTarget]
    ELSE LET Modified(ll, n) == IF n \in DOMAIN ll.modified THEN ll.modified[n] ELSE 0
             listed == ListObjectsV2(l, "metadata/")
             metadata_files == SelectSeq(listed, EndsWithMetadataJson)
         IN IF metadata_files = <<>>
            THEN [ok |-> FALSE, file |-> ""]
            ELSE LET latest ==
                        CHOOSE i \in 1..Len(metadata_files) :
                          /\ \A j \in 1..Len(metadata_files) :
                                Modified(l, metadata_files[j]) <= Modified(l, metadata_files[i])
                          /\ \A j \in 1..(i - 1) :
                                Modified(l, metadata_files[j]) < Modified(l, metadata_files[i])
                 IN [ok |-> TRUE, file |-> metadata_files[latest]]

\* _extract_partition_spec: metadata.get("partition-spec", []) is a list
\* whenever the key is absent.
IcebergExtractPartitionSpec(l) ==
    IF l.topLevelSpec = "list" THEN l.specIds
    ELSE IF l.topLevelSpec = "absent" THEN <<>>
    ELSE LET hits == {i \in 1..Len(l.partitionSpecs) :
                        l.partitionSpecs[i].spec_id = l.defaultSpecId}
         IN IF hits # {}
            THEN l.partitionSpecs[CHOOSE i \in hits : \A j \in hits : i <= j].fields
            ELSE <<>>

IcebergReadMetadata(path, l) ==
    LET metadata_file == IcebergGetLatestMetadataFile(l)
    IN IF ~metadata_file.ok \/ l.corrupt THEN [ok |-> FALSE, raw |-> RawBase(path)]
       ELSE [ok |-> TRUE,
             raw |-> [RawBase(path) EXCEPT
                        !.format = ICEBERG,
                        !.schema = l.fields,
                        !.partition_spec = IcebergExtractPartitionSpec(l),
                        !.snapshots = l.snapshots,
                        !.current_snapshot_id = l.currentSnapshotId,
                        !.properties = l.props,
                        !.format_version = Some(l.formatVersion),
                        !.metadata_file = Some(metadata_file.file)]]

\* The version log files {version:020d}.json of the model
LogFiles ==
    << "00000000000000000000.json", "00000000000000000001.json",
       "00000000000000000002.json", "00000000000000000003.json" >>

\* The lines of a log file of the table, parsed
DeltaLogEntries(l) ==
    l.earlier
    \o << MetaDataAction(MetaData(
            l.name, l.description,
            IF l.schemaString = "missing" THEN None
            ELSE Some([parses |-> l.schemaString = "ok", fields |-> l.fields]),
            Some(l.partNames), Some(l.props))) >>
    \o (IF l.protocol # None
        THEN <<ProtocolAction(l.protocol[1].minReaderVersion,
                              l.protocol[1].minWriterVersion)>>
        ELSE <<>>)

\* A merge in which a metaData action replaces what was merged before it.
ReplaceWithMetaData(merged, body) ==
    [name |-> body.name, description |-> body.description,
     schemaString |-> body.schemaString,
     partitionColumns |-> body.partitionColumns,
     configuration |-> body.configuration,
     protocol |-> merged.protocol]

\* merged.update(entry["metaData"]): the keys of the action overwrite, the
\* other keys stay
UpdateWithMetaData(merged, body) ==
    [name |-> IF body.name # None THEN body.name ELSE merged.name,
     description |->
        IF body.description # None THEN body.description ELSE merged.description,
     schemaString |->
        IF body.schemaString # None THEN body.schemaString ELSE merged.schemaString,
     partitionColumns |->
        IF body.partitionColumns # None THEN body.partitionColumns
        ELSE merged.partitionColumns,
     configuration |->
        IF body.configuration # None THEN body.configuration ELSE merged.configuration,
     protocol |-> merged.protocol]

\* _merge_log_entries
RECURSIVE DeltaMergeLogEntries(_)
DeltaMergeLogEntries(log_entries) ==
    IF log_entries = <<>>
    THEN [name |-> None, description |-> None, schemaString |-> None,
          partitionColumns |-> None, configuration |-> None, protocol |-> None]
    ELSE LET merged == DeltaMergeLogEntries(SubSeq(log_entries, 1, Len(log_entries) - 1))
             entry == log_entries[Len(log_entries)]
         IN IF entry.kind = "metaData" THEN UpdateWithMetaData(merged, entry.body)
            ELSE IF entry.kind = "protocol" THEN [merged EXCEPT !.protocol = Some(entry.body)]
            ELSE merged

\* _get_latest_log_entry: one page of keys, the .json files that are not
\* .checkpoint.json, the last of them by key; its lines parsed and merged.
DeltaGetLatestLogEntry(l) ==
    LET listed == ListObjectsV2(l, "_delta_log/")
        log_files == SelectSeq(listed, JsonNotCheckpoint)
        highest == {v \in 1..Len(LogFiles) :
                      /\ <<"_delta_log/", LogFiles[v]>> \in l.keys
                      /\ \A w \in (v + 1)..Len(LogFiles) :
                            <<"_delta_log/", LogFiles[w]>> \notin l.keys}
        failed == [ok |-> FALSE, version |-> 0, file |-> "",
                   log_entry |-> DeltaMergeLogEntries(<<>>)]
        \* int(filename.replace('.json', '')): None where int() raises ValueError
        LogVersion(n) ==
            IF \E v \in 1..Len(LogFiles) : LogFiles[v] = n
            THEN Some((CHOOSE v \in 1..Len(LogFiles) : LogFiles[v] = n) - 1)
            ELSE None
    IN IF log_files = <<>> THEN failed
       ELSE LET latest_log == log_files[Len(log_files)]
            IN IF LogVersion(latest_log) = None THEN failed
               ELSE IF l.corrupt /\ \E v \in highest : LogFiles[v] = latest_log THEN failed
               ELSE [ok |-> TRUE, version |-> LogVersion(latest_log)[1],
                     file |-> latest_log,
                     log_entry |-> DeltaMergeLogEntries(DeltaLogEntries(l))]

\* _extract_schema: json.loads(log_entry.get("schemaString", "{}")).get("fields", []),
\* and [] when the string does not parse
DeltaExtractSchema(log_entry) ==
    IF log_entry.schemaString = None THEN <<>>
    ELSE IF ~log_entry.schemaString[1].parses THEN <<>>
    ELSE log_entry.schemaString[1].fields

\* _extract_partition_columns
DeltaExtractPartitionColumns(log_entry) ==
    IF log_entry.partitionColumns = None THEN <<>> ELSE log_entry.partitionColumns[1]

\* _extract_properties
DeltaExtractProperties(log_entry) ==
    LET configuration == IF log_entry.configuration = None THEN EmptyProps
                         ELSE log_entry.configuration[1]
        p1 == IF log_entry.name # None
              THEN Put(configuration, "table.name", log_entry.name[1])
              ELSE configuration
    IN IF log_entry.description # None
       THEN Put(p1, "table.description", log_entry.description[1])
       ELSE p1

DeltaReadMetadata(path, l) ==
    LET latest == DeltaGetLatestLogEntry(l)
    IN IF ~latest.ok THEN [ok |-> FALSE, raw |-> RawBase(path)]
       ELSE [ok |-> TRUE,
             raw |-> [RawBase(path) EXCEPT
                        !.format = DELTA,
                        !.version = Some(latest.version),
                        !.schema = DeltaExtractSchema(latest.log_entry),
                        !.partition_names = DeltaExtractPartitionColumns(latest.log_entry),
                        !.properties = DeltaExtractProperties(latest.log_entry),
                        !.supports_time_travel = Some(TRUE),
                        !.protocol = latest.log_entry.protocol,
                        !.metadata_file = Some(latest.file)]]

\* properties.get(key, default)
PropGet(props, key, default) == IF key \in DOMAIN props THEN props[key] ELSE default

\* [f.strip() for f in value.split(",") if f.strip()] on the values in use
SplitComma(value) ==
    CASE value = "" -> <<>>
      [] value = "region,dt" -> <<"region", "dt">>
      [] OTHER -> <<value>>

HudiExtractPartitionFields(properties) ==
    LET partition_path == PropGet(properties, "hoodie.table.partition.fields", "")
    IN IF partition_path # "" THEN SplitComma(partition_path) ELSE <<>>

\* _read_hoodie_properties.  When the object is missing, _read_s3_object
\* raises MetadataReadError, which `except Exception` catches: the answer
\* is the empty dict.  ConfigParser.read_string / items on the text of
\* hoodie.properties: a value holding a "%" that starts no interpolation
\* makes items() raise, and the same handler answers the empty dict.
ReadHoodieProperties(l) ==
    IF <<".hoodie/", "hoodie.properties">> \notin l.keys THEN EmptyProps
    ELSE IF \E k \in DOMAIN l.props : l.props[k] \in {"sales%2024"}
    THEN EmptyProps
    ELSE l.props

\* _extract_schema_from_commit: for commit in reversed(timeline).  i is
\* the position of the commit to try.  MetadataReadError (from
\* _read_s3_object) and TypeError are not among the exceptions the loop
\* catches.
RECURSIVE HudiExtractSchemaFromCommit(_, _)
HudiExtractSchemaFromCommit(timeline, i) ==
    IF i = 0 THEN [ok |-> TRUE, fields |-> <<>>]
    ELSE IF timeline[i].kind \in {"unfetchable", "nullmeta"}
    THEN [ok |-> FALSE, fields |-> <<>>]
    ELSE IF timeline[i].kind = "schema"
    THEN [ok |-> TRUE, fields |-> timeline[i].fields]
    ELSE HudiExtractSchemaFromCommit(timeline, i - 1)

\* a timeline of one commit already counts as time travel
HudiReadMetadataOneCommit(path, l) ==
    LET properties == ReadHoodieProperties(l)
        timeline == l.commits
        schema == HudiExtractSchemaFromCommit(timeline, Len(timeline))
    IN IF ~schema.ok THEN [ok |-> FALSE, raw |-> RawBase(path)]
       ELSE [ok |-> TRUE,
             raw |-> [RawBase(path) EXCEPT
                     !.format = HUDI,
                     !.table_name = Some(PropGet(properties, "hoodie.table.name", "unknown")),
                     !.table_type = Some(PropGet(properties, "hoodie.table.type", "COPY_ON_WRITE")),
                     !.schema = schema.fields,
                     !.partition_names = HudiExtractPartitionFields(properties),
                     !.properties = properties,
                     !.timeline = Len(timeline),
                     !.supports_time_travel = Some(Len(timeline) > 0)]]

HudiReadMetadata(path, l) ==
    LET properties == ReadHoodieProperties(l)
        timeline == l.commits
        schema == HudiExtractSchemaFromCommit(timeline, Len(timeline))
    IN IF ~schema.ok THEN [ok |-> FALSE, raw |-> RawBase(path)]
       ELSE [ok |-> TRUE,
             raw |-> [RawBase(path) EXCEPT
                     !.format = HUDI,
                     !.table_name = Some(PropGet(properties, "hoodie.table.name", "unknown")),
                     !.table_type = Some(PropGet(properties, "hoodie.table.type", "COPY_ON_WRITE")),
                     !.schema = schema.fields,
                     !.partition_names = HudiExtractPartitionFields(properties),
                     !.properties = properties,
                     !.timeline = Len(timeline),
                     !.supports_time_travel = Some(Len(timeline) > 1)]]

ReadMetadata(path, l, format) ==
    IF format = ICEBERG THEN IcebergReadMetadata(path, l)
    ELSE IF format = DELTA THEN DeltaReadMetadata(path, l)
    ELSE IF format = HUDI THEN HudiReadMetadata(path, l)
    ELSE [ok |-> FALSE, raw |-> RawBase(path)]

\* ----------------------------------------------------------- normalizer
ICEBERG_TYPE_MAP ==
    ("boolean" :> "BOOLEAN") @@ ("int" :> "INTEGER") @@ ("long" :> "BIGINT") @@
    ("float" :> "FLOAT") @@ ("double" :> "DOUBLE") @@ ("decimal" :> "DECIMAL") @@
    ("date" :> "DATE") @@ ("time" :> "TIME") @@ ("timestamp" :> "TIMESTAMP") @@
    ("timestamptz" :> "TIMESTAMP WITH TIME ZONE") @@ ("string" :> "VARCHAR") @@
    ("uuid" :> "UUID") @@ ("fixed" :> "BINARY") @@ ("binary" :> "BINARY")

DELTA_TYPE_MAP ==
    ("boolean" :> "BOOLEAN") @@ ("byte" :> "TINYINT") @@ ("short" :> "SMALLINT") @@
    ("integer" :> "INTEGER") @@ ("long" :> "BIGINT") @@ ("float" :> "FLOAT") @@
    ("double" :> "DOUBLE") @@ ("decimal" :> "DECIMAL") @@ ("string" :> "VARCHAR") @@
    ("binary" :> "BINARY") @@ ("date" :> "DATE") @@ ("timestamp" :> "TIMESTAMP")

HUDI_TYPE_MAP ==
    ("boolean" :> "BOOLEAN") @@ ("int" :> "INTEGER") @@ ("long" :> "BIGINT") @@
    ("float" :> "FLOAT") @@ ("double" :> "DOUBLE") @@ ("decimal" :> "DECIMAL") @@
    ("string" :> "VARCHAR") @@ ("binary" :> "BINARY") @@ ("date" :> "DATE") @@
    ("timestamp" :> "TIMESTAMP")

\* str.lower() on the type names in use
Lower(s) ==
    CASE s = "LONG" -> "long"
      [] s = "String" -> "string"
      [] OTHER -> s

\* A SQL type name: sql followed by the preserved parameter list.
SqlType(sql, args) == [sql |-> sql, args |-> args]

\* The outcome of a _map_*_type call: ok is FALSE when it raises; warned
\* is TRUE when it logs "Unknown ... type ..., defaulting to VARCHAR".
Mapped(ok, val, warned) == [ok |-> ok, val |-> val, warned |-> warned]

\* A type that is neither a string nor an object makes .split() raise.
MapIcebergType(t) ==
    IF t.kind \notin {"str", "nested"} THEN Mapped(FALSE, SqlType("", ""), FALSE)
    ELSE LET base_type == Lower(t.base)
         IN IF base_type \in DOMAIN ICEBERG_TYPE_MAP
            THEN Mapped(TRUE, SqlType(ICEBERG_TYPE_MAP[base_type], t.args), FALSE)
            ELSE Mapped(TRUE, SqlType("VARCHAR", ""), TRUE)

MapDeltaType(t) ==
    IF t.kind \notin {"str", "nested"} THEN Mapped(FALSE, SqlType("", ""), FALSE)
    ELSE LET base_type == Lower(t.base)
         IN IF base_type \in DOMAIN DELTA_TYPE_MAP
            THEN Mapped(TRUE, SqlType(DELTA_TYPE_MAP[base_type], t.args), FALSE)
            ELSE Mapped(TRUE, SqlType("VARCHAR", ""), TRUE)

\* str(hudi_type) never raises: None becomes "None", an unknown type.
MapHudiType(t) ==
    LET non_null == SelectSeq(t.members, LAMBDA m : m # "null")
        hudi_type == IF t.kind = "union"
                     THEN (IF non_null # <<>> THEN non_null[1] ELSE "string")
                     ELSE IF t.kind = "null" THEN "None" ELSE t.base
        base_type == Lower(hudi_type)
    IN IF base_type \in DOMAIN HUDI_TYPE_MAP
       THEN Mapped(TRUE, SqlType(HUDI_TYPE_MAP[base_type], ""), FALSE)
       ELSE Mapped(TRUE, SqlType("VARCHAR", ""), TRUE)

ColumnMetadata(name, data_type, nullable, comment) ==
    [name |-> name, data_type |-> data_type, nullable |-> nullable, comment |-> comment]

NormalizeIcebergColumns(schema_fields) ==
    [ok |-> \A i \in 1..Len(schema_fields) : MapIcebergType(schema_fields[i].type).ok,
     cols |-> [i \in 1..Len(schema_fields) |->
                 ColumnMetadata(schema_fields[i].name,
                                MapIcebergType(schema_fields[i].type).val,
                                ~schema_fields[i].required,
                                schema_fields[i].doc)]]

NormalizeDeltaColumns(schema_fields) ==
    [ok |-> \A i \in 1..Len(schema_fields) : MapDeltaType(schema_fields[i].type).ok,
     cols |-> [i \in 1..Len(schema_fields) |->
                 ColumnMetadata(schema_fields[i].name,
                                MapDeltaType(schema_fields[i].type).val,
                                schema_fields[i].nullable,
                                schema_fields[i].doc)]]

NormalizeHudiColumns(schema_fields) ==
    [ok |-> \A i \in 1..Len(schema_fields) : MapHudiType(schema_fields[i].type).ok,
     cols |-> [i \in 1..Len(schema_fields) |->
                 ColumnMetadata(schema_fields[i].name,
                                MapHudiType(schema_fields[i].type).val,
                                IF schema_fields[i].type.kind = "union"
                                THEN \E j \in 1..Len(schema_fields[i].type.members) :
                                        schema_fields[i].type.members[j] = "null"
                                ELSE TRUE,
                                schema_fields[i].doc)]]

\* field_id_to_name is a dict: the last field with an id wins.
ExtractIcebergPartitionColumns(partition_spec, schema) ==
    LET ids == {schema[i].id : i \in 1..Len(schema)}
        nameOf(id) ==
            LET last == CHOOSE i \in 1..Len(schema) :
                          /\ schema[i].id = id
                          /\ \A j \in 1..Len(schema) : schema[j].id = id => j <= i
            IN schema[last].name
        hits == SelectSeq(partition_spec, LAMBDA sid : sid # 0 /\ sid \in ids)
    IN [i \in 1..Len(hits) |-> nameOf(hits[i])]

RECURSIVE RStripSlash(_)
RStripSlash(parts) ==
    IF parts # <<>> /\ parts[Len(parts)] = ""
    THEN RStripSlash(SubSeq(parts, 1, Len(parts) - 1))
    ELSE parts

ExtractTableNameFromPath(s3_path) ==
    LET parts == RStripSlash(s3_path)
        nonEmpty == {i \in 1..Len(parts) : parts[i] # ""}
    IN IF nonEmpty = {} THEN "unknown_table"
       ELSE parts[CHOOSE i \in nonEmpty : \A j \in nonEmpty : j <= i]

TableMetadata(table_name, format, location, columns, partitions, properties, supports_time_travel, updated_at) ==
    [table_name |-> table_name, format |-> format, location |-> location,
     columns |-> columns, partitions |-> partitions, properties |-> properties,
     supports_time_travel |-> supports_time_travel,
     created_at |-> None, updated_at |-> updated_at,
     num_files |-> None, size_bytes |-> None, row_count |-> None]

\* The raw record as the caller finds it after the call.  TableMetadata is
\* built with properties = raw_metadata.get("properties", {}), the dict
\* object the raw record holds, and the format-specific keys are then
\* assigned into metadata.properties, which is that same object.  A call
\* that raised while normalizing the columns has assigned nothing.
AfterCall(raw, built, properties) ==
    IF built THEN [raw EXCEPT !.properties = properties] ELSE raw

NormalizeIceberg(raw, t) ==
    LET location == raw.location
        table_name == ExtractTableNameFromPath(location)
        columns == NormalizeIcebergColumns(raw.schema)
        partitions == ExtractIcebergPartitionColumns(raw.partition_spec, raw.schema)
        supports_time_travel == raw.snapshots > 0
        p1 == IF raw.current_snapshot_id # None /\ raw.current_snapshot_id # Some(0)
              THEN Put(raw.properties, "iceberg.current_snapshot_id",
                       Str(raw.current_snapshot_id[1]))
              ELSE raw.properties
        p2 == IF raw.format_version # None /\ raw.format_version # Some(0)
              THEN Put(p1, "iceberg.format_version", Str(raw.format_version[1]))
              ELSE p1
    IN [ok |-> columns.ok,
        meta |-> TableMetadata(table_name, ICEBERG, location, columns.cols,
                               partitions, p2, supports_time_travel, Some(t)),
        raw |-> AfterCall(raw, columns.ok, p2)]

NormalizeDelta(raw, t) ==
    LET location == raw.location
        named == PropGet(raw.properties, "table.name", "")
        table_name == IF named # "" THEN named ELSE ExtractTableNameFromPath(location)
        columns == NormalizeDeltaColumns(raw.schema)
        partitions == raw.partition_names
        supports_time_travel ==
            IF raw.supports_time_travel # None THEN raw.supports_time_travel[1] ELSE TRUE
        p1 == IF raw.version # None
              THEN Put(raw.properties, "delta.version", Str(raw.version[1]))
              ELSE raw.properties
        p2 == IF raw.protocol # None
              THEN Put(Put(p1, "delta.minReaderVersion",
                           Str(raw.protocol[1].minReaderVersion)),
                       "delta.minWriterVersion", Str(raw.protocol[1].minWriterVersion))
              ELSE p1
    IN [ok |-> columns.ok,
        meta |-> TableMetadata(table_name, DELTA, location, columns.cols,
                               partitions, p2, supports_time_travel, Some(t)),
        raw |-> AfterCall(raw, columns.ok, p2)]

NormalizeHudi(raw, t) ==
    LET table_name == IF raw.table_name # None THEN raw.table_name[1] ELSE "unknown"
        location == raw.location
        columns == NormalizeHudiColumns(raw.schema)
        partitions == raw.partition_names
        supports_time_travel ==
            IF raw.supports_time_travel # None THEN raw.supports_time_travel[1] ELSE FALSE
        p1 == IF raw.table_type # None /\ raw.table_type # Some("")
              THEN Put(raw.properties, "hudi.table.type", raw.table_type[1])
              ELSE raw.properties
        p2 == IF raw.timeline > 0
              THEN Put(p1, "hudi.commits.count", Str(raw.timeline))
              ELSE p1
    IN [ok |-> columns.ok,
        meta |-> TableMetadata(table_name, HUDI, location, columns.cols,
                               partitions, p2, supports_time_travel, Some(t)),
        raw |-> AfterCall(raw, columns.ok, p2)]

\* normalize(raw_metadata, table_format); t is the clock at the call
Normalize(raw, table_format, t) ==
    IF table_format = ICEBERG THEN NormalizeIceberg(raw, t)
    ELSE IF table_format = DELTA THEN NormalizeDelta(raw, t)
    ELSE IF table_format = HUDI THEN NormalizeHudi(raw, t)
    ELSE [ok |-> FALSE, meta |-> NormalizeHudi(raw, t).meta, raw |-> raw]

\* ---------------------------------------------------------------- store
\* json.dumps / json.loads of a list of strings and of a str -> str dict
JsonDumpsList(xs) == <<"[">> \o xs \o <<"]">>
JsonLoadsList(text) == SubSeq(text, 2, Len(text) - 1)
JsonDumpsDict(d) == [members |-> {<<k, d[k]>> : k \in DOMAIN d}]
JsonLoadsDict(text) ==
    [k \in {p[1] : p \in text.members} |->
        (CHOOSE p \in text.members : p[1] = k)[2]]

\* sqlite3 binds a Python bool as INTEGER; get reads it back with bool()
BoolToSql(b) == IF b THEN 1 ELSE 0
SqlToBool(i) == i # 0

\* `a or b` on an optional datetime
OrNow(opt, t) == IF opt # None THEN opt ELSE Some(t)

EmptyDb == [tables |-> {}, columns |-> {}, seq |-> 0]

\* SELECT id FROM table_metadata WHERE table_name = ?  (fetchone)
SelectId(d, table_name) ==
    LET rows == {r \in d.tables : r.table_name = table_name}
    IN IF rows = {} THEN None ELSE Some((CHOOSE r \in rows : TRUE).id)

\* SELECT * FROM table_metadata WHERE table_name = ?  (fetchone)
SelectTableRow(d, table_name) ==
    LET rows == {r \in d.tables : r.table_name = table_name}
    IN IF rows = {} THEN None ELSE Some(CHOOSE r \in rows : TRUE)

\* INSERT INTO table_metadata: AUTOINCREMENT id, UNIQUE(table_name)
InsertTableRow(d, metadata, t) ==
    LET table_id == d.seq + 1
        row == [id |-> table_id,
                table_name |-> metadata.table_name,
                format |-> metadata.format,
                location |-> metadata.location,
                partitions |-> JsonDumpsList(metadata.partitions),
                properties |-> JsonDumpsDict(metadata.properties),
                supports_time_travel |-> BoolToSql(metadata.supports_time_travel),
                num_files |-> metadata.num_files,
                size_bytes |-> metadata.size_bytes,
                row_count |-> metadata.row_count,
                created_at |-> OrNow(metadata.created_at, t),
                updated_at |-> OrNow(metadata.updated_at, t)]
    IN IF \E r \in d.tables : r.table_name = metadata.table_name
       THEN [ok |-> FALSE, err |-> "UNIQUE table_name", id |-> table_id, db |-> d]
       ELSE [ok |-> TRUE, err |-> "", id |-> table_id,
             db |-> [d EXCEPT !.tables = @ \cup {row}, !.seq = table_id]]

\* An update that leaves the row's location as it was.
UpdateTableRowKeepLocation(d, table_id, metadata, t) ==
    [d EXCEPT !.tables =
        {IF r.id = table_id
         THEN [r EXCEPT
                 !.format = metadata.format,
                 !.partitions = JsonDumpsList(metadata.partitions),
                 !.properties = JsonDumpsDict(metadata.properties),
                 !.supports_time_travel = BoolToSql(metadata.supports_time_travel),
                 !.num_files = metadata.num_files,
                 !.size_bytes = metadata.size_bytes,
                 !.row_count = metadata.row_count,
                 !.updated_at = Some(t)]
         ELSE r : r \in d.tables}]

\* UPDATE table_metadata SET ... WHERE id = ?  (no row matched: no error)
UpdateTableRow(d, table_id, metadata, t) ==
    [d EXCEPT !.tables =
        {IF r.id = table_id
         THEN [r EXCEPT
                 !.format = metadata.format,
                 !.location = metadata.location,
                 !.partitions = JsonDumpsList(metadata.partitions),
                 !.properties = JsonDumpsDict(metadata.properties),
                 !.supports_time_travel = BoolToSql(metadata.supports_time_travel),
                 !.num_files = metadata.num_files,
                 !.size_bytes = metadata.size_bytes,
                 !.row_count = metadata.row_count,
                 !.updated_at = Some(t)]
         ELSE r : r \in d.tables}]

\* DELETE FROM column_metadata WHERE table_id = ?
DeleteColumns(d, table_id) ==
    [d EXCEPT !.columns = {c \in @ : c.table_id # table_id}]

\* An insert that numbers the columns downwards from zero.
InsertColumnCountingDown(d, table_id, column, idx) ==
    LET row == [table_id |-> table_id,
                column_name |-> column.name,
                data_type |-> column.data_type,
                nullable |-> BoolToSql(column.nullable),
                comment |-> column.comment,
                column_order |-> 0 - idx]
    IN IF \E c \in d.columns : c.table_id = table_id /\ c.column_name = column.name
       THEN [ok |-> FALSE, err |-> "UNIQUE column_name", db |-> d]
       ELSE IF ~\E r \in d.tables : r.id = table_id
       THEN [ok |-> FALSE, err |-> "FOREIGN KEY", db |-> d]
       ELSE [ok |-> TRUE, err |-> "", db |-> [d EXCEPT !.columns = @ \cup {row}]]

\* INSERT INTO column_metadata: FOREIGN KEY(table_id), UNIQUE(table_id, column_name)
InsertColumn(d, table_id, column, idx) ==
    LET row == [table_id |-> table_id,
                column_name |-> column.name,
                data_type |-> column.data_type,
                nullable |-> BoolToSql(column.nullable),
                comment |-> column.comment,
                column_order |-> idx]
    IN IF \E c \in d.columns : c.table_id = table_id /\ c.column_name = column.name
       THEN [ok |-> FALSE, err |-> "UNIQUE column_name", db |-> d]
       ELSE IF ~\E r \in d.tables : r.id = table_id
       THEN [ok |-> FALSE, err |-> "FOREIGN KEY", db |-> d]
       ELSE [ok |-> TRUE, err |-> "", db |-> [d EXCEPT !.columns = @ \cup {row}]]

\* for idx, column in enumerate(metadata.columns): INSERT ...
\* i is the 1-based position of the next column; column_order is i - 1.
RECURSIVE InsertColumns(_, _, _, _)
InsertColumns(d, table_id, columns, i) ==
    IF i > Len(columns) THEN [ok |-> TRUE, err |-> "", db |-> d, written |-> i - 1]
    ELSE LET r == InsertColumn(d, table_id, columns[i], i - 1)
         IN IF r.ok THEN InsertColumns(r.db, table_id, columns, i + 1)
            ELSE [ok |-> FALSE, err |-> r.err, db |-> d, written |-> i - 1]

InsertTableMetadata(d, metadata, t) ==
    LET r == InsertTableRow(d, metadata, t)
    IN IF ~r.ok THEN [ok |-> FALSE, err |-> r.err, id |-> r.id, db |-> d, written |-> 0]
       ELSE LET c == InsertColumns(r.db, r.id, metadata.columns, 1)
            IN [ok |-> c.ok, err |-> c.err, id |-> r.id, db |-> c.db,
                written |-> c.written]

\* An update that forgets to delete the previous version's columns.
UpdateTableMetadataKeepColumns(d, table_id, metadata, t) ==
    LET c == InsertColumns(UpdateTableRow(d, table_id, metadata, t),
                           table_id, metadata.columns, 1)
    IN [ok |-> c.ok, err |-> c.err, id |-> table_id, db |-> c.db, written |-> c.written]

UpdateTableMetadata(d, table_id, metadata, t) ==
    LET c == InsertColumns(DeleteColumns(UpdateTableRow(d, table_id, metadata, t),
                                         table_id),
                           table_id, metadata.columns, 1)
    IN [ok |-> c.ok, err |-> c.err, id |-> table_id, db |-> c.db, written |-> c.written]

\* A save that commits what it wrote before the failing statement.
RollBackNothing(before, partial) == partial

\* What the connection leaves in the database when save raises: the
\* transaction was never committed and is rolled back with the connection.
RollBack(before, partial) == before

\* save_table_metadata(metadata); t is the clock at the call
SaveTableMetadata(d, metadata, t) ==
    LET existing == SelectId(d, metadata.table_name)
        w == IF existing # None
             THEN UpdateTableMetadata(d, existing[1], metadata, t)
             ELSE InsertTableMetadata(d, metadata, t)
    IN IF w.ok
       THEN [ok |-> TRUE, err |-> "", detail |-> "", existing |-> existing,
             id |-> Some(w.id), written |-> w.written, db |-> w.db]
       ELSE [ok |-> FALSE, err |-> "StorageError", detail |-> w.err,
             existing |-> existing, id |-> None, written |-> w.written,
             db |-> RollBack(d, w.db)]

\* SELECT ... FROM column_metadata WHERE table_id = ? ORDER BY column_order
RECURSIVE OrderByColumnOrder(_)
OrderByColumnOrder(rows) ==
    IF rows = {} THEN <<>>
    ELSE LET first == CHOOSE c \in rows : \A x \in rows : c.column_order <= x.column_order
         IN <<first>> \o OrderByColumnOrder(rows \ {first})

\* A query that sorts the column rows the wrong way round.
SelectColumnsDescending(d, table_id) ==
    LET asc == OrderByColumnOrder({c \in d.columns : c.table_id = table_id})
    IN [i \in 1..Len(asc) |-> asc[Len(asc) + 1 - i]]

SelectColumns(d, table_id) ==
    OrderByColumnOrder({c \in d.columns : c.table_id = table_id})

\* The TableMetadata get_table_metadata builds from a table row and column rows
BuildTableMetadata(table_row, column_rows) ==
    [table_name |-> table_row.table_name,
     format |-> table_row.format,
     location |-> table_row.location,
     columns |-> [i \in 1..Len(column_rows) |->
                    ColumnMetadata(column_rows[i].column_name,
                                   column_rows[i].data_type,
                                   SqlToBool(column_rows[i].nullable),
                                   column_rows[i].comment)],
     partitions |-> JsonLoadsList(table_row.partitions),
     properties |-> JsonLoadsDict(table_row.properties),
     supports_time_travel |-> SqlToBool(table_row.supports_time_travel),
     created_at |-> table_row.created_at,
     updated_at |-> table_row.updated_at,
     num_files |-> table_row.num_files,
     size_bytes |-> table_row.size_bytes,
     row_count |-> table_row.row_count]

GetTableMetadata(d, table_name) ==
    LET table_row == SelectTableRow(d, table_name)
    IN IF table_row = None THEN None
       ELSE Some(BuildTableMetadata(table_row[1], SelectColumns(d, table_row[1].id)))

\* A connection on which foreign keys are not enforced: nothing cascades.
CascadeNothing(columns, ids) == columns

\* PRAGMA foreign_keys = ON makes ON DELETE CASCADE remove the child rows
CascadeDelete(columns, ids) == {c \in columns : c.table_id \notin ids}

\* DELETE FROM table_metadata WHERE table_name = ?; deleted = rowcount > 0
DeleteTableMetadata(d, table_name) ==
    LET rows == {r \in d.tables : r.table_name = table_name}
    IN [deleted |-> Cardinality(rows) > 0,
        db |-> [d EXCEPT !.tables = @ \ rows,
                         !.columns = CascadeDelete(@, {r.id : r \in rows})]]

\* --------------------------------------------------------------- engine
Outcome(op, name) ==
    [op |-> op, name |-> name, ok |-> TRUE, err |-> "", detail |-> "",
     stages |-> <<>>, saved |-> None, ret |-> None, id |-> None,
     existing |-> None, written |-> 0, deleted |-> FALSE]

Failed(out, err, detail) == [out EXCEPT !.ok = FALSE, !.err = err, !.detail = detail]

\* An engine that hands the metadata to the store before it looks at the
\* normalizer's verdict.
DiscoverAndStoreEagerSave(d, s3_path, l, t1, t2) ==
    LET det == DetectFormat(l)
        rd == ReadMetadata(s3_path, l, det.format)
        nm == Normalize(rd.raw, det.format, t1)
        sv == SaveTableMetadata(d, nm.meta, t2)
        stages == IF ~det.ok THEN <<"detect">>
                  ELSE IF ~rd.ok THEN <<"detect", "read">>
                  ELSE IF ~nm.ok THEN <<"detect", "read", "normalize">>
                  ELSE <<"detect", "read", "normalize", "save">>
        out == [Outcome("discover", "") EXCEPT !.stages = stages]
    IN IF ~det.ok THEN [out |-> Failed(out, "FormatDetectionError", ""), db |-> d]
       ELSE IF ~rd.ok THEN [out |-> Failed(out, "MetadataReadError", ""), db |-> d]
       ELSE IF ~nm.ok THEN [out |-> Failed(out, "NormalizationError", ""), db |-> sv.db]
       ELSE LET out4 == [out EXCEPT !.name = nm.meta.table_name,
                                    !.saved = Some(nm.meta),
                                    !.existing = sv.existing,
                                    !.written = sv.written]
            IN IF ~sv.ok THEN [out |-> Failed(out4, sv.err, sv.detail), db |-> sv.db]
               ELSE [out |-> [out4 EXCEPT !.id = sv.id, !.ret = Some(nm.meta)],
                     db |-> sv.db]

\* discover_and_store(s3_path) against catalog d, with l under the path;
\* t1 is the clock when normalize runs, t2 when save runs.
DiscoverAndStore(d, s3_path, l, t1, t2) ==
    LET out0 == Outcome("discover", "")
        out1 == [out0 EXCEPT !.stages = <<"detect">>]
        out2 == [out0 EXCEPT !.stages = <<"detect", "read">>]
        out3 == [out0 EXCEPT !.stages = <<"detect", "read", "normalize">>]
        \* metadata_store.save_table_metadata(normalized_metadata)
        Saved(meta, sv) ==
            LET out4 == [out0 EXCEPT
                           !.stages = <<"detect", "read", "normalize", "save">>,
                           !.name = meta.table_name,
                           !.saved = Some(meta),
                           !.existing = sv.existing,
                           !.written = sv.written]
            IN IF ~sv.ok
               THEN [out |-> Failed(out4, sv.err, sv.detail), db |-> sv.db]
               ELSE [out |-> [out4 EXCEPT !.id = sv.id, !.ret = Some(meta)],
                     db |-> sv.db]
        \* normalizer.normalize(raw_metadata, table_format)
        Normalized(nm) ==
            IF ~nm.ok
            THEN [out |-> Failed(out3, "NormalizationError", ""), db |-> d]
            ELSE Saved(nm.meta, SaveTableMetadata(d, nm.meta, t2))
        \* _read_metadata(s3_path, table_format)
        ReadDone(format, rd) ==
            IF ~rd.ok
            THEN [out |-> Failed(out2, "MetadataReadError", ""), db |-> d]
            ELSE Normalized(Normalize(rd.raw, format, t1))
        \* format_detector.detect_format(s3_path)
        Detected(det) ==
            IF ~det.ok
            THEN [out |-> Failed(out1, "FormatDetectionError", ""), db |-> d]
            ELSE ReadDone(det.format, ReadMetadata(s3_path, l, det.format))
    IN Detected(DetectFormat(l))

TableNames == {"t1", "t2"}
Clients == {"c1", "c2"}

Idle ==
    [pc |-> "idle", op |-> "", name |-> "", meta |-> None, existing |-> None,
     txn |-> None, idx |-> 0, row |-> None, out |-> "", detail |-> "",
     ret |-> None, id |-> None]

Init ==
    /\ db = EmptyDb
    /\ now = 0
    /\ resp = Outcome("none", "")
    /\ cl = [c \in Clients |-> Idle]
    /\ lock = "none"
    /\ hist = {}

\* ----------------------------------------- sequential caller: whole calls
Discover(s3_path, l, t1, t2) ==
    /\ now <= t1 /\ t1 <= t2
    /\ LET r == DiscoverAndStore(db, s3_path, l, t1, t2)
       IN /\ r.db.seq <= MaxId
          /\ db' = r.db
          /\ resp' = r.out
    /\ now' = t2
    /\ UNCHANGED <<cl, lock, hist>>

Get(table_name) ==
    /\ resp' = [Outcome("get", table_name) EXCEPT
                  !.ret = GetTableMetadata(db, table_name)]
    /\ UNCHANGED <<db, now, cl, lock, hist>>

Delete(table_name) ==
    /\ LET r == DeleteTableMetadata(db, table_name)
       IN /\ db' = r.db
          /\ resp' = [Outcome("delete", table_name) EXCEPT !.deleted = r.deleted]
    /\ UNCHANGED <<now, cl, lock, hist>>

Next ==
    \/ \E s3_path \in Paths, l \in Layouts, t1 \in 0..MaxClock, t2 \in 0..MaxClock :
          Discover(s3_path, l, t1, t2)
    \/ \E table_name \in TableNames : Get(table_name)
    \/ \E table_name \in TableNames : Delete(table_name)

Spec == Init /\ [][Next]_vars

\* ------------------------------- concurrent callers: one SQL statement
\* ------------------------------- (or one commit) per step
\* sqlite3 opens a transaction implicitly before the first INSERT, UPDATE
\* or DELETE of a connection and not before a SELECT: a SELECT reads the
\* committed database, the first write takes the database's write lock
\* (waiting while another connection holds it), and what a connection
\* wrote is visible to the others from its commit on.
ConcPaths == { <<"b", "t1">> }
ConcLayouts == {IcebergTable, DeltaTable, DeltaDupColumn, HudiTable}
ConcNames == {"t1"}

Committed(d) == {GetTableMetadata(d, r.table_name)[1] : r \in d.tables}

\* discover_and_store up to the call of save_table_metadata
BeginDiscover(c, s3_path, l, t) ==
    /\ cl[c].pc = "idle"
    /\ now <= t
    /\ LET det == DetectFormat(l)
           rd == ReadMetadata(s3_path, l, det.format)
           nm == Normalize(rd.raw, det.format, t)
       IN /\ det.ok /\ rd.ok /\ nm.ok
          /\ cl' = [cl EXCEPT ![c] = [Idle EXCEPT !.pc = "select", !.op = "save",
                                                  !.name = nm.meta.table_name,
                                                  !.meta = Some(nm.meta)]]
    /\ now' = t
    /\ UNCHANGED <<db, resp, lock, hist>>

\* save_table_metadata: SELECT id ... ; existing = cursor.fetchone()
SaveSelect(c) ==
    /\ cl[c].pc = "select"
    /\ cl' = [cl EXCEPT ![c].pc = "write",
                        ![c].existing = SelectId(db, cl[c].name)]
    /\ UNCHANGED <<db, now, resp, lock, hist>>

\* the first write of the transaction: UPDATE table_metadata and DELETE
\* FROM column_metadata (existing row), or INSERT INTO table_metadata
SaveWriteRow(c) ==
    /\ cl[c].pc = "write"
    /\ lock = "none"
    /\ LET m == cl[c].meta[1]
           ins == InsertTableRow(db, m, now)
       IN IF cl[c].existing # None
          THEN cl' = [cl EXCEPT
                        ![c].pc = "columns",
                        ![c].id = cl[c].existing,
                        ![c].idx = 1,
                        ![c].txn = Some(DeleteColumns(
                                      UpdateTableRow(db, cl[c].existing[1], m, now),
                                      cl[c].existing[1]))]
          ELSE /\ ins.id <= MaxId
               /\ cl' = [cl EXCEPT
                           ![c].pc = IF ins.ok THEN "columns" ELSE "failed",
                           ![c].detail = ins.err,
                           ![c].id = Some(ins.id),
                           ![c].idx = 1,
                           ![c].txn = Some(ins.db)]
    /\ lock' = c
    /\ UNCHANGED <<db, now, resp, hist>>

\* one INSERT INTO column_metadata of the loop
SaveInsertColumn(c) ==
    /\ cl[c].pc = "columns"
    /\ cl[c].idx <= Len(cl[c].meta[1].columns)
    /\ LET r == InsertColumn(cl[c].txn[1], cl[c].id[1],
                             cl[c].meta[1].columns[cl[c].idx], cl[c].idx - 1)
       IN cl' = [cl EXCEPT
                   ![c].pc = IF r.ok THEN "columns" ELSE "failed",
                   ![c].detail = r.err,
                   ![c].idx = IF r.ok THEN @ + 1 ELSE @,
                   ![c].txn = Some(r.db)]
    /\ UNCHANGED <<db, now, resp, lock, hist>>

\* conn.commit(); conn.close(); return table_id
SaveCommit(c) ==
    /\ cl[c].pc = "columns"
    /\ cl[c].idx > Len(cl[c].meta[1].columns)
    /\ db' = cl[c].txn[1]
    /\ hist' = hist \cup Committed(cl[c].txn[1])
    /\ lock' = "none"
    /\ cl' = [cl EXCEPT ![c].pc = "done", ![c].out = "ok", ![c].txn = None,
                        ![c].ret = cl[c].meta]
    /\ UNCHANGED <<now, resp>>

\* except sqlite3.Error: raise StorageError. Neither commit nor close has
\* run: the connection is dropped with its transaction open, and the
\* transaction is rolled back when the connection is collected. Until then
\* its writes stay invisible to every other connection and a writer waits
\* for the lock, as it does for any open transaction; the step stands for
\* the raise together with that collection.
SaveFail(c) ==
    /\ cl[c].pc = "failed"
    /\ db' = RollBack(db, cl[c].txn[1])
    /\ lock' = "none"
    /\ cl' = [cl EXCEPT ![c].pc = "done", ![c].out = "StorageError",
                        ![c].txn = None, ![c].id = None]
    /\ UNCHANGED <<now, resp, hist>>

\* get_table_metadata: SELECT * FROM table_metadata ...; fetchone()
GetSelectRow(c, table_name) ==
    /\ cl[c].pc = "idle"
    /\ LET table_row == SelectTableRow(db, table_name)
       IN cl' = [cl EXCEPT ![c] = [Idle EXCEPT
                    !.pc = IF table_row = None THEN "done" ELSE "getcolumns",
                    !.op = "get",
                    !.name = table_name,
                    !.out = IF table_row = None THEN "ok" ELSE "",
                    !.row = table_row]]
    /\ UNCHANGED <<db, now, resp, lock, hist>>

\* get_table_metadata: SELECT ... FROM column_metadata ...; fetchall(); build
GetSelectColumns(c) ==
    /\ cl[c].pc = "getcolumns"
    /\ cl' = [cl EXCEPT
                ![c].pc = "done",
                ![c].out = "ok",
                ![c].ret = Some(BuildTableMetadata(cl[c].row[1],
                                   SelectColumns(db, cl[c].row[1].id)))]
    /\ UNCHANGED <<db, now, resp, lock, hist>>

\* delete_table_metadata: DELETE ...; commit (one write, one commit)
DeleteCommit(c, table_name) ==
    /\ cl[c].pc = "idle"
    /\ lock = "none"
    /\ LET r == DeleteTableMetadata(db, table_name)
       IN /\ db' = r.db
          /\ cl' = [cl EXCEPT ![c] = [Idle EXCEPT
                       !.pc = "done", !.op = "delete", !.name = table_name,
                       !.out = IF r.deleted THEN "deleted" ELSE "absent"]]
    /\ UNCHANGED <<now, resp, lock, hist>>

\* the call returns to the caller, who may call again
Return(c) ==
    /\ cl[c].pc = "done"
    /\ cl' = [cl EXCEPT ![c] = Idle]
    /\ UNCHANGED <<db, now, resp, lock, hist>>

SaveSteps(c) ==
    \/ \E s3_path \in ConcPaths, l \in ConcLayouts, t \in 0..MaxClock :
          BeginDiscover(c, s3_path, l, t)
    \/ SaveSelect(c)
    \/ SaveWriteRow(c)
    \/ SaveInsertColumn(c)
    \/ SaveCommit(c)
    \/ SaveFail(c)
    \/ Return(c)

GetSteps(c) ==
    \/ \E table_name \in ConcNames : GetSelectRow(c, table_name)
    \/ GetSelectColumns(c)
    \/ Return(c)

DeleteSteps(c) ==
    \/ \E table_name \in ConcNames : DeleteCommit(c, table_name)
    \/ Return(c)

\* one caller discovers while another reads
NextGetSave == SaveSteps("c1") \/ GetSteps("c2")
SpecGetSave == Init /\ [][NextGetSave]_vars

\* two callers discover
NextSaveSave == \E c \in Clients : SaveSteps(c)
SpecSaveSave == Init /\ [][NextSaveSave]_vars

\* one caller discovers while another deletes
NextSaveDelete == SaveSteps("c1") \/ DeleteSteps("c2")
SpecSaveDelete == Init /\ [][NextSaveDelete]_vars

\* ------------------------------------------- detector on arbitrary prefixes
\* What may lie under a prefix: Iceberg metadata files, a stray file under
\* metadata/, a Delta log file, hoodie.properties, a data file directly
\* under the prefix.
DetectKeys ==
    { <<"metadata/", "v1.metadata.json">>, <<"metadata/", "version-hint.text">>,
      <<"metadata/", "notes.txt">>, <<"_delta_log/", "00000000000000000000.json">>,
      <<".hoodie/", "hoodie.properties">>, <<"", "part-0000.parquet">> }

ListOutcomes == {"ok", "Timeout"} \cup ClientErrorCodes

DetectLayouts ==
    { [NoTable EXCEPT !.keys = ks, !.list = f] :
        ks \in SUBSET DetectKeys, f \in [SeqToSet(Sentinels) -> ListOutcomes] }

\* The table layouts of Layouts with a data file next to the table, and a
\* prefix holding nothing but data files.
ParquetOnly == [NoTable EXCEPT !.keys = {<<"", "part-0000.parquet">>}]

DiscoverLayouts ==
    {ParquetOnly} \cup
    { [l EXCEPT !.keys = @ \cup extra] :
        l \in Layouts, extra \in SUBSET {<<"", "part-0000.parquet">>} }

\* a caller about to inspect a prefix holding l
InitDetect ==
    /\ db = EmptyDb
    /\ now = 0
    /\ resp \in {[op |-> "input", layout |-> l] : l \in DetectLayouts \cup DiscoverLayouts}
    /\ cl = [c \in Clients |-> Idle]
    /\ lock = "none"
    /\ hist = {}

\* detector.detect_format(s3_path) on the prefix
Detect ==
    /\ resp.op = "input"
    /\ resp' = [op |-> "detect", layout |-> resp.layout,
                det |-> DetectFormat(resp.layout)]
    /\ UNCHANGED <<db, now, cl, lock, hist>>

\* engine.discover_and_store(s3_path) on the prefix
DiscoverPrefix(s3_path) ==
    /\ resp.op = "input"
    /\ resp.layout \in DiscoverLayouts
    /\ LET r == DiscoverAndStore(db, s3_path, resp.layout, now, now)
       IN /\ db' = r.db
          /\ resp' = [op |-> "discover", layout |-> resp.layout, out |-> r.out]
    /\ UNCHANGED <<now, cl, lock, hist>>

NextDetect ==
    \/ Detect
    \/ \E s3_path \in ConcPaths : DiscoverPrefix(s3_path)

SpecDetect == InitDetect /\ [][NextDetect]_vars

\* ------------------------------------- readers and normalizer on their own
MaxCount == 2

\* type names of the three vocabularies, and names none of them lists
TypeNames ==
    DOMAIN ICEBERG_TYPE_MAP \cup DOMAIN DELTA_TYPE_MAP \cup DOMAIN HUDI_TYPE_MAP
    \cup {"bytes", "struct", "array"}

TypeInputs ==
    {TStr(b) : b \in TypeNames}
    \cup {TParam("decimal", "(10,2)"), TNull, TUnion(<<"null">>)}
    \cup {TUnion(<<"null", b>>) : b \in {"long", "bytes", "struct"}}

\* s3://b/t1, s3://b/t1/, s3://b/wh/t2
NormPaths == { <<"b", "t1">>, <<"b", "t1", "">>, <<"b", "wh", "t2">> }

HudiProps ==
    { HudiTable.props,
      [HudiTable.props EXCEPT !["hoodie.table.name"] = "sales%2024"],
      [k \in {"hoodie.table.type"} |-> "MERGE_ON_READ"] }

NormLayouts ==
    { [IcebergTable EXCEPT !.snapshots = n, !.props = pr] :
        n \in 0..MaxCount,
        pr \in {IcebergTable.props, Put(EmptyProps, "iceberg.format_version", "9")} }
    \cup
    { [DeltaTable EXCEPT !.name = nm, !.props = pr,
                         !.keys = {<<"_delta_log/", LogFiles[v + 1]>>}] :
        nm \in {None, Some("orders"), Some("")},
        pr \in {EmptyProps, Put(EmptyProps, "delta.version", "8")},
        v \in 0..MaxCount }
    \cup
    { [HudiTable EXCEPT !.commits = [i \in 1..n |-> Commit("plain", <<>>)], !.props = pr] :
        n \in 0..MaxCount, pr \in HudiProps }

NormInput(kind, vocab, type, path, l) ==
    [op |-> "input", kind |-> kind, vocab |-> vocab, type |-> type,
     path |-> path, layout |-> l]

InitNormalize ==
    /\ db = EmptyDb
    /\ now = 0
    /\ resp \in {NormInput("type", v, t, <<>>, NoTable) :
                    v \in {ICEBERG, DELTA, HUDI}, t \in TypeInputs}
               \cup {NormInput("table", UNKNOWN, TNull, path, l) :
                       path \in NormPaths, l \in NormLayouts}
    /\ cl = [c \in Clients |-> Idle]
    /\ lock = "none"
    /\ hist = {}

\* _map_iceberg_type / _map_delta_type / _map_hudi_type on one type
MapType ==
    /\ resp.op = "input" /\ resp.kind = "type"
    /\ resp' = [op |-> "maptype", vocab |-> resp.vocab, type |-> resp.type,
                out |-> CASE resp.vocab = ICEBERG -> MapIcebergType(resp.type)
                          [] resp.vocab = DELTA -> MapDeltaType(resp.type)
                          [] OTHER -> MapHudiType(resp.type)]
    /\ UNCHANGED <<db, now, cl, lock, hist>>

\* discover_and_store up to and including normalize: detect, read, normalize
ReadAndNormalize ==
    /\ resp.op = "input" /\ resp.kind = "table"
    /\ LET det == DetectFormat(resp.layout)
           rd == ReadMetadata(resp.path, resp.layout, det.format)
       IN /\ det.ok /\ rd.ok
          /\ resp' = [op |-> "normalize", path |-> resp.path, layout |-> resp.layout,
                      format |-> det.format, raw |-> rd.raw,
                      out |-> Normalize(rd.raw, det.format, now)]
    /\ UNCHANGED <<db, now, cl, lock, hist>>

NextNormalize == MapType \/ ReadAndNormalize

SpecNormalize == InitNormalize /\ [][NextNormalize]_vars

\* ------------------------------ one caller discovering one table again
MaxRepeat == 2

\* three fields whose order is neither that of their names nor of their ids
OrderedFields(types) ==
    << SrcField(3, "zone", types[1], FALSE, TRUE),
       SrcField(1, "amount", types[2], TRUE, FALSE),
       SrcField(2, "month", types[3], FALSE, TRUE) >>

FieldOrders(fields) ==
    { [i \in 1..3 |-> fields[p[i]]] :
        p \in {q \in [1..3 -> 1..3] : \A i, j \in 1..3 : q[i] = q[j] => i = j} }

RepeatLayouts ==
    { [IcebergTable EXCEPT !.fields = f, !.specIds = <<>>] :
        f \in FieldOrders(OrderedFields(<<TStr("string"), TStr("long"), TStr("int")>>)) }
    \cup
    { [DeltaTable EXCEPT !.fields = f, !.partNames = <<>>] :
        f \in FieldOrders(OrderedFields(<<TStr("string"), TStr("long"), TStr("integer")>>)) }
    \cup
    { [HudiTable EXCEPT !.commits = <<Commit("schema", f)>>] :
        f \in FieldOrders(OrderedFields(<<TUnion(<<"null", "string">>), TStr("long"),
                                          TStr("int")>>)) }

RepeatPaths == { <<"b", "t1">>, <<"b", "wh", "t2">> }

InitRepeat ==
    /\ db = EmptyDb
    /\ now = 0
    /\ resp \in {[op |-> "input", path |-> path, layout |-> l, n |-> 0,
                   out |-> Outcome("none", "")] :
                    path \in RepeatPaths, l \in RepeatLayouts}
    /\ cl = [c \in Clients |-> Idle]
    /\ lock = "none"
    /\ hist = {}

\* discover_and_store on the caller's path, the table under it unchanged
Rediscover ==
    /\ resp.n < MaxRepeat
    /\ LET r == DiscoverAndStore(db, resp.path, resp.layout, now, now)
       IN /\ db' = r.db
          /\ resp' = [resp EXCEPT !.op = "discover", !.out = r.out, !.n = @ + 1]
    /\ UNCHANGED <<now, cl, lock, hist>>

\* get_table_metadata of the name the last discover returned
GetDiscovered ==
    /\ resp.op = "discover" /\ resp.out.ok
    /\ resp' = [resp EXCEPT
                  !.op = "get",
                  !.out = [Outcome("get", resp.out.name) EXCEPT
                             !.ret = GetTableMetadata(db, resp.out.name)]]
    /\ UNCHANGED <<db, now, cl, lock, hist>>

NextRepeat == Rediscover \/ GetDiscovered

SpecRepeat == InitRepeat /\ [][NextRepeat]_vars

\* ------------------------------------------- the readers on their own
\* The tables read: Iceberg by what lies under metadata/ and by partition
\* specs, Delta by what lies under _delta_log/ and by the actions of the
\* log file, Hudi by hoodie.properties and the timeline.
ReadLayouts ==
    LET
        \* Iceberg tables by what lies under metadata/: which of version-hint.text,
        \* v1/v2.metadata.json and a stray file exist, what the hint names, which
        \* metadata file was modified last, whether the files parse.
        IcebergLocateLayouts ==
            { [IcebergTable EXCEPT !.keys = ks, !.hintTarget = h, !.modified = m, !.corrupt = c] :
                ks \in (SUBSET { <<"metadata/", "version-hint.text">>,
                                 <<"metadata/", "v1.metadata.json">>,
                                 <<"metadata/", "v2.metadata.json">>,
                                 <<"metadata/", "notes.txt">> }) \ {{}},
                h \in {"v1.metadata.json", "v3.metadata.json"},
                m \in { [n \in {"v1.metadata.json", "v2.metadata.json"} |->
                            IF n = newest THEN 2 ELSE 1] :
                        newest \in {"v1.metadata.json", "v2.metadata.json"} },
                c \in BOOLEAN }

        \* Iceberg tables by their partition specs
        IcebergSpecLayouts ==
            { [IcebergTable EXCEPT !.topLevelSpec = top, !.specIds = ids,
                                   !.partitionSpecs = specs, !.defaultSpecId = d] :
                top \in {"list", "absent", "object"},
                ids \in {<<>>, <<5>>, <<9>>},
                specs \in { <<>>, <<[spec_id |-> 0, fields |-> <<5>>]>>,
                            <<[spec_id |-> 0, fields |-> <<1>>], [spec_id |-> 1, fields |-> <<5>>]>>,
                            <<[spec_id |-> 0, fields |-> <<9, 5>>]>> },
                d \in {0, 1} }

        \* Delta tables by what lies under _delta_log/
        DeltaFileLayouts ==
            { [DeltaTable EXCEPT !.keys = ks, !.corrupt = c] :
                ks \in (SUBSET { <<"_delta_log/", "00000000000000000000.crc">>,
                                 <<"_delta_log/", "00000000000000000000.json">>,
                                 <<"_delta_log/", "00000000000000000001.json">>,
                                 <<"_delta_log/", "00000000000000000002.checkpoint.json">>,
                                 <<"_delta_log/", "00000000000000000002.json">>,
                                 <<"_delta_log/", "00000000000000000003.json">>,
                                 <<"_delta_log/", "_commits/00000000000000000001.a1b2.json">> })
                       \ {{}},
                c \in BOOLEAN }

        \* Delta tables by the actions of their log file
        EarlierActions ==
            LET schema == Some([parses |-> TRUE,
                                fields |-> <<SrcField(0, "old_id", TStr("long"), FALSE, FALSE)>>])
                full == MetaData(Some("orders"), Some("daily orders"), schema,
                                 Some(<<"old_id">>), Some(Put(EmptyProps, "owner", "etl")))
                bare == MetaData(None, None, None, Some(<<>>), Some(EmptyProps))
            IN { <<>>,
                 <<MetaDataAction(full)>>,
                 <<ProtocolAction(2, 5), MetaDataAction(full)>>,
                 <<MetaDataAction(full), MetaDataAction(bare)>>,
                 <<MetaDataAction(bare), ProtocolAction(2, 5), [kind |-> "add", body |-> <<>>]>> }

        DeltaLogLayouts ==
            { [DeltaTable EXCEPT !.earlier = e, !.name = nm, !.description = ds,
                                 !.schemaString = ss, !.protocol = pr] :
                e \in EarlierActions,
                nm \in {None, Some("sales")},
                ds \in {None, Some("weekly sales")},
                ss \in {"ok", "missing", "unparseable"},
                pr \in {None, DeltaTable.protocol} }

        \* Hudi tables by hoodie.properties being there or not, and by the timeline
        CommitKinds ==
            { Commit("schema", <<SrcField(0, "x", TStr("long"), FALSE, TRUE)>>),
              Commit("schema", <<SrcField(0, "y", TStr("long"), FALSE, TRUE)>>),
              Commit("plain", <<>>), Commit("notjson", <<>>), Commit("nullmeta", <<>>),
              Commit("unfetchable", <<>>) }

        HudiTimelineLayouts ==
            { [HudiTable EXCEPT !.keys = ks, !.commits = cs] :
                ks \in { {<<".hoodie/", "hoodie.properties">>, <<".hoodie/", "20240101.commit">>},
                         {<<".hoodie/", "20240101.commit">>} },
                cs \in {<<c>> : c \in CommitKinds}
                       \cup {<<c1, c2>> : c1 \in CommitKinds, c2 \in CommitKinds} }
    IN UNION { IcebergLocateLayouts, IcebergSpecLayouts, DeltaFileLayouts,
               DeltaLogLayouts, HudiTimelineLayouts }

InitRead ==
    /\ db = EmptyDb
    /\ now = 0
    /\ resp \in {[op |-> "input", layout |-> l] : l \in ReadLayouts}
    /\ cl = [c \in Clients |-> Idle]
    /\ lock = "none"
    /\ hist = {}

\* _read_metadata(s3_path, table_format) for the detected format
Read ==
    /\ resp.op = "input"
    /\ LET det == DetectFormat(resp.layout)
       IN /\ det.ok
          /\ resp' = [op |-> "read", layout |-> resp.layout, format |-> det.format,
                      rd |-> ReadMetadata(<<"b", "t1">>, resp.layout, det.format)]
    /\ UNCHANGED <<db, now, cl, lock, hist>>

\* discover_and_store(s3_path) on the table
DiscoverRead ==
    /\ resp.op = "input"
    /\ LET r == DiscoverAndStore(db, <<"b", "t1">>, resp.layout, now, now)
       IN /\ db' = r.db
          /\ resp' = [op |-> "discover", layout |-> resp.layout,
                      format |-> DetectFormat(resp.layout).format, out |-> r.out]
    /\ UNCHANGED <<now, cl, lock, hist>>

NextRead == Read \/ DiscoverRead

SpecRead == InitRead /\ [][NextRead]_vars

\* ------------------------------------------ two discoveries, then the gets
\* Two callers' tables at different locations, discovered one after the
\* other into an empty catalog, and then read back by the names the two
\* discoveries returned.
InitTwo ==
    /\ db = EmptyDb
    /\ now = 0
    /\ LET TwoPaths == { <<"b", "t1">>, <<"b", "wh", "t1">>, <<"b", "t2">> }
           TwoLayouts ==
               { IcebergTable, DeltaTable, [DeltaTable EXCEPT !.name = Some("t2")],
                 HudiTable, [HudiTable EXCEPT !.props["hoodie.table.name"] = "sales"] }
       IN resp \in
               {[op |-> "input", u1 |-> u1, l1 |-> l1, u2 |-> u2, l2 |-> l2,
                   out1 |-> Outcome("none", ""), out2 |-> Outcome("none", ""),
                   got1 |-> None, got2 |-> None] :
                    u1 \in TwoPaths, u2 \in TwoPaths,
                    l1 \in TwoLayouts, l2 \in TwoLayouts}
    /\ resp.u1 # resp.u2
    /\ cl = [c \in Clients |-> Idle]
    /\ lock = "none"
    /\ hist = {}

\* discover_and_store(u1), then discover_and_store(u2)
DiscoverOne ==
    /\ resp.op \in {"input", "first"}
    /\ LET first == resp.op = "input"
           r == DiscoverAndStore(db, IF first THEN resp.u1 ELSE resp.u2,
                                 IF first THEN resp.l1 ELSE resp.l2, now, now)
       IN /\ db' = r.db
          /\ resp' = IF first THEN [resp EXCEPT !.op = "first", !.out1 = r.out]
                     ELSE [resp EXCEPT !.op = "second", !.out2 = r.out]
    /\ UNCHANGED <<now, cl, lock, hist>>

\* get_table_metadata of the names the two discoveries returned
GetBoth ==
    /\ resp.op = "second" /\ resp.out1.ok /\ resp.out2.ok
    /\ resp' = [resp EXCEPT !.op = "got",
                            !.got1 = GetTableMetadata(db, resp.out1.name),
                            !.got2 = GetTableMetadata(db, resp.out2.name)]
    /\ UNCHANGED <<db, now, cl, lock, hist>>

NextTwo == DiscoverOne \/ GetBoth

SpecTwo == InitTwo /\ [][NextTwo]_vars

\* ================================================================ claims
ColumnNames(m) == {m.columns[i].name : i \in 1..Len(m.columns)}

\* C1: once a table_name is stored with format F, a discover that saves the
\* same table_name with another format fails, and what get returns for the
\* name is left exactly as it was.
C1_FormatImmutable ==
    [][\A r \in db.tables :
          (/\ resp'.op = "discover"
           /\ resp'.saved # None
           /\ r.table_name = resp'.saved[1].table_name
           /\ r.format # resp'.saved[1].format)
          => (/\ ~resp'.ok
              /\ GetTableMetadata(db', r.table_name) = GetTableMetadata(db, r.table_name))
      ]_vars

\* C2 (as claimed): after a successful discover, get(table_name) equals the
\* saved metadata in every field except updated_at.
C2_RoundTripAsClaimed ==
    (resp.op = "discover" /\ resp.ok) =>
        LET m == resp.saved[1]
            got == GetTableMetadata(db, m.table_name)
        IN /\ got # None
           /\ [got[1] EXCEPT !.updated_at = None] = [m EXCEPT !.updated_at = None]

\* C2 (amended): after a successful discover, get(table_name) equals the
\* saved metadata in every field except updated_at and created_at.
C2_RoundTrip ==
    (resp.op = "discover" /\ resp.ok) =>
        LET m == resp.saved[1]
            got == GetTableMetadata(db, m.table_name)
        IN /\ got # None
           /\ [got[1] EXCEPT !.updated_at = None, !.created_at = None]
                 = [m EXCEPT !.updated_at = None, !.created_at = None]

C2_Witness ==
    /\ resp.op = "discover" /\ resp.ok
    /\ Len(resp.saved[1].columns) >= 2
    /\ resp.saved[1].partitions # <<>>
    /\ DOMAIN resp.saved[1].properties # {}

\* C3: after delete(name), get(name) is None and no column row references
\* the id of a deleted row; delete returns true exactly when a row existed.
C3_DeleteCascade ==
    [][resp'.op = "delete" =>
          LET gone == {r \in db.tables : r.table_name = resp'.name}
          IN /\ GetTableMetadata(db', resp'.name) = None
             /\ \A c \in db'.columns : c.table_id \notin {r.id : r \in gone}
             /\ \A c \in db'.columns : \E r \in db'.tables : r.id = c.table_id
             /\ resp'.deleted = (gone # {})
      ]_vars

C3_Witness ==
    /\ resp.op = "delete" /\ resp.deleted
    /\ db.tables # {} /\ db.columns # {}

\* C4: a save of a stored table_name keeps the row's id and created_at,
\* sets updated_at to the time of the save, and leaves exactly the new
\* metadata's columns (in order), partitions, properties and statistics.
C4_UpdateReplaces ==
    [][(resp'.op = "discover" /\ resp'.ok /\ resp'.existing # None) =>
          LET m == resp'.saved[1]
              old == SelectTableRow(db, m.table_name)[1]
              new == SelectTableRow(db', m.table_name)[1]
              got == GetTableMetadata(db', m.table_name)[1]
          IN /\ new.id = old.id
             /\ new.created_at = old.created_at
             /\ new.updated_at = Some(now')
             /\ got.columns = m.columns
             /\ Cardinality({c \in db'.columns : c.table_id = new.id}) = Len(m.columns)
             /\ got.partitions = m.partitions
             /\ got.properties = m.properties
             /\ got.num_files = m.num_files
             /\ got.size_bytes = m.size_bytes
             /\ got.row_count = m.row_count
      ]_vars

C4_Witness ==
    /\ resp.op = "discover" /\ resp.ok /\ resp.existing # None
    /\ Len(resp.saved[1].columns) >= 2
    /\ LET row == SelectTableRow(db, resp.name)[1]
       IN row.created_at # row.updated_at

\* C5: a save that fails after it has started writing leaves the catalog
\* with exactly the table and column rows it held before the call.
C5_SaveAtomic ==
    [][(resp'.op = "discover" /\ resp'.err = "StorageError") => db' = db]_vars

C5_Witness ==
    /\ resp.op = "discover" /\ resp.err = "StorageError"
    /\ resp.detail = "UNIQUE column_name"
    /\ resp.existing # None
    /\ resp.written >= 2
    /\ db.columns # {}

\* C9: every stored TableMetadata has set(partitions) a subset of its
\* column names.
C9_PartitionSubset ==
    \A r \in db.tables :
        LET m == GetTableMetadata(db, r.table_name)[1]
        IN SeqToSet(m.partitions) \subseteq ColumnNames(m)

StageOrder == <<"detect", "read", "normalize", "save">>
StageError ==
    ("detect" :> "FormatDetectionError") @@ ("read" :> "MetadataReadError") @@
    ("normalize" :> "NormalizationError") @@ ("save" :> "StorageError")

\* C10: discover runs detect, read, normalize, save in that order and stops
\* at the first stage that fails; save runs only after the three before it
\* succeeded; the error names the failing stage; a failed discover leaves
\* the catalog unchanged.
C10_PipelineOrder ==
    [][resp'.op = "discover" =>
          LET n == Len(resp'.stages)
          IN /\ n \in 1..4
             /\ resp'.stages = SubSeq(StageOrder, 1, n)
             /\ resp'.ok => n = 4
             /\ (resp'.saved # None) <=> (n = 4)
             /\ ~resp'.ok => /\ resp'.err = StageError[resp'.stages[n]]
                             /\ resp'.ret = None
                             /\ db' = db
      ]_vars

C10_Witness ==
    /\ resp.op = "discover" /\ ~resp.ok
    /\ resp.err = "MetadataReadError"
    /\ resp.stages = <<"detect", "read">>
    /\ \A name \in TableNames : GetTableMetadata(db, name) = None

NoDuplicateColumns(m) ==
    \A i, j \in 1..Len(m.columns) : m.columns[i].name = m.columns[j].name => i = j

Completes(c) == cl[c].pc # "done" /\ cl'[c].pc = "done"

\* C6: a get that runs while the same table_name is saved returns a
\* TableMetadata that some commit made visible as a whole (the pre-save or
\* the post-save metadata), never the row of one and the columns of another.
C6_NoTornRead ==
    \A c \in Clients :
        (cl[c].pc = "done" /\ cl[c].op = "get" /\ cl[c].ret # None)
        => cl[c].ret[1] \in hist

\* C7: when two discover calls of one table_name overlap, each completes
\* successfully, and when it completes the stored row is its metadata.
C7_ConcurrentDiscover ==
    [][\A c \in Clients :
          (Completes(c) /\ cl'[c].op = "save" /\ NoDuplicateColumns(cl[c].meta[1]))
          => /\ cl'[c].out = "ok"
             /\ GetTableMetadata(db', cl[c].name) # None
             /\ [GetTableMetadata(db', cl[c].name)[1]
                    EXCEPT !.updated_at = None, !.created_at = None]
                  = [cl[c].meta[1] EXCEPT !.updated_at = None, !.created_at = None]
      ]_vars

\* C8: a save that overlaps a delete of the same table_name ends as it
\* would in one of the two sequential orders, in both of which it succeeds:
\* it never fails because the row went away between its SELECT and its
\* writes, and when it returns an id the row it wrote is in the catalog.
C8_SaveDeleteLinearizable ==
    [][\A c \in Clients :
          (Completes(c) /\ cl'[c].op = "save" /\ NoDuplicateColumns(cl[c].meta[1]))
          => /\ cl'[c].out = "ok"
             /\ GetTableMetadata(db', cl[c].name) # None
      ]_vars

\* ------------------------------------------------------ detector claims
PARQUET == "PARQUET"

ListsAnswer(l) == \A d \in SeqToSet(Sentinels) : l.list[d] = "ok"

HasObjectUnder(l, directory) == \E k \in l.keys : k[1] = directory

\* a key directly under the prefix whose name ends with ".parquet"
ParquetProbe(l) == <<"", "part-0000.parquet">> \in l.keys

\* metadata/ holds a key ending in ".metadata.json" or named version-hint.text
HasIcebergMetadataFile(l) ==
    \E k \in l.keys :
        k[1] = "metadata/" /\ k[2] \in {"v1.metadata.json", "version-hint.text"}

\* the formats whose probe matches, in the priority order of the claim
MatchingFormats(l) ==
    SelectSeq(<<ICEBERG, DELTA, HUDI, PARQUET>>,
              LAMBDA f : CASE f = ICEBERG -> HasObjectUnder(l, "metadata/")
                           [] f = DELTA -> HasObjectUnder(l, "_delta_log/")
                           [] f = HUDI -> HasObjectUnder(l, ".hoodie/")
                           [] OTHER -> ParquetProbe(l))

\* C11: on a prefix whose listings all answer, detect returns the first of
\* Iceberg, Delta, Hudi, Parquet whose probe matches, and raises only when
\* none of the four matches.
C11_ProbePriority ==
    (resp.op = "detect" /\ ListsAnswer(resp.layout)) =>
        IF MatchingFormats(resp.layout) # <<>>
        THEN resp.det.ok /\ resp.det.format = Head(MatchingFormats(resp.layout))
        ELSE ~resp.det.ok

\* C12: discover on a prefix with a .parquet key directly under it and no
\* sentinel directory stores a TableMetadata with format PARQUET and
\* supports_time_travel false.
C12_ParquetDiscovered ==
    (/\ resp.op = "discover"
     /\ ParquetProbe(resp.layout)
     /\ \A d \in SeqToSet(Sentinels) : ~HasObjectUnder(resp.layout, d))
    => /\ resp.out.ok
       /\ resp.out.saved # None
       /\ resp.out.saved[1].format = PARQUET
       /\ ~resp.out.saved[1].supports_time_travel
       /\ GetTableMetadata(db, resp.out.name) # None

\* C13: a prefix whose metadata/ subtree holds neither a *.metadata.json key
\* nor version-hint.text is not classified as Iceberg.
C13_IcebergProbeNeedsMetadataFile ==
    (/\ resp.op = "detect"
     /\ ListsAnswer(resp.layout)
     /\ ~HasIcebergMetadataFile(resp.layout))
    => resp.det.format # ICEBERG

\* the probes before the i-th neither matched nor raised
NoEarlierAnswer(l, i) ==
    \A j \in 1..(i - 1) :
        /\ l.list[Sentinels[j]] \notin ClientErrorCodes
        /\ ~(l.list[Sentinels[j]] = "ok" /\ HasObjectUnder(l, Sentinels[j]))

\* C14: when the listing of a probe the detector reaches fails with a
\* ClientError (AccessDenied, NoSuchBucket, NotFound), detect raises
\* FormatDetectionError carrying that code, returns no format and lists no
\* later directory.
C14_ListFailurePropagates ==
    resp.op = "detect" =>
        \A i \in 1..Len(Sentinels) :
            (/\ resp.layout.list[Sentinels[i]] \in ClientErrorCodes
             /\ NoEarlierAnswer(resp.layout, i))
            => /\ ~resp.det.ok
               /\ resp.det.err = "FormatDetectionError"
               /\ resp.det.cause = resp.layout.list[Sentinels[i]]
               /\ resp.det.format = UNKNOWN
               /\ resp.det.probes = SubSeq(Sentinels, 1, i)

C14_Witness ==
    /\ resp.op = "detect"
    /\ ~HasObjectUnder(resp.layout, "metadata/")
    /\ resp.layout.list["metadata/"] = "ok"
    /\ resp.layout.list["_delta_log/"] = "AccessDenied"
    /\ HasObjectUnder(resp.layout, "_delta_log/")
    /\ HasObjectUnder(resp.layout, ".hoodie/")
    /\ resp.layout.list[".hoodie/"] = "ok"
    /\ ~resp.det.ok /\ resp.det.cause = "AccessDenied"

C16_TypeMappingTotal ==
    LET listed == CASE resp.vocab = ICEBERG -> ICEBERG_TYPE_MAP
                    [] resp.vocab = DELTA -> DELTA_TYPE_MAP
                    [] OTHER -> ("boolean" :> "BOOLEAN") @@ ("int" :> "INTEGER") @@
                                ("long" :> "BIGINT") @@ ("float" :> "FLOAT") @@
                                ("double" :> "DOUBLE") @@ ("string" :> "VARCHAR") @@
                                ("bytes" :> "BINARY") @@ ("date" :> "DATE") @@
                                ("timestamp" :> "TIMESTAMP")
        non_null == SelectSeq(resp.type.members, LAMBDA m : m # "null")
        name == IF resp.type.kind = "union"
                THEN IF non_null # <<>> THEN non_null[1] ELSE "string"
                ELSE resp.type.base
    IN (/\ resp.op = "maptype"
        /\ resp.type.kind = "str" \/ (resp.type.kind = "union" /\ resp.vocab = HUDI))
       => /\ resp.out.ok
          /\ IF name \in DOMAIN listed
             THEN /\ resp.out.val = SqlType(listed[name], resp.type.args)
                  /\ ~resp.out.warned
             ELSE /\ resp.out.val = SqlType("VARCHAR", "")
                  /\ resp.out.warned

\* the names of a sequence of fields or columns, in order
NamesInOrder(xs) == [i \in 1..Len(xs) |-> xs[i].name]

\* C17: the columns discover returns, and the columns get returns
\* afterwards, are in the order of the source schema's fields, on the first
\* discover and on every repeat (which goes through the update path).
C17_ColumnOrder ==
    (resp.op \in {"discover", "get"} /\ resp.out.ok) =>
        /\ resp.out.ret # None
        /\ LET l == resp.layout
               \* the schema fields the table carries: a Hudi table's are
               \* in its commit, the others' in the metadata / log file
               SourceFields ==
                   IF l.commits # <<>> THEN l.commits[Len(l.commits)].fields
                   ELSE l.fields
           IN NamesInOrder(resp.out.ret[1].columns) = NamesInOrder(SourceFields)

C17_Witness ==
    /\ resp.op = "get" /\ resp.n = MaxRepeat
    /\ resp.out.ret # None
    /\ NamesInOrder(resp.out.ret[1].columns) = <<"zone", "amount", "month">>
    /\ \E r \in db.tables : r.table_name = resp.out.name /\ r.updated_at # None

\* the last non-empty segment of a path
FinalSegment(path) ==
    LET nonEmpty == {i \in 1..Len(path) : path[i] # ""}
    IN path[CHOOSE i \in nonEmpty : \A j \in nonEmpty : j <= i]

\* C18: table_name is the final non-empty path segment for Iceberg; for
\* Delta the table's name when the log gives one, else the final segment;
\* for Hudi the value of hoodie.table.name as written in hoodie.properties.
C18_TableName ==
    (resp.op = "normalize" /\ resp.out.ok) =>
        CASE resp.format = ICEBERG ->
                resp.out.meta.table_name = FinalSegment(resp.path)
          [] resp.format = DELTA ->
                resp.out.meta.table_name =
                    IF resp.layout.name # None THEN resp.layout.name[1]
                    ELSE FinalSegment(resp.path)
          [] OTHER ->
                "hoodie.table.name" \in DOMAIN resp.layout.props
                => resp.out.meta.table_name = resp.layout.props["hoodie.table.name"]

\* a key under one of the prefixes iceberg., delta., hudi.
ReservedKey(k) ==
    k \in {"iceberg.current_snapshot_id", "iceberg.format_version", "delta.version",
           "delta.minReaderVersion", "delta.minWriterVersion", "hudi.table.type",
           "hudi.commits.count"}

\* C19: a raw record with a source property under a reserved prefix fails
\* normalization.
C19_ReservedPrefixRejected ==
    (/\ resp.op = "normalize"
     /\ \E k \in DOMAIN resp.raw.properties : ReservedKey(k))
    => ~resp.out.ok

\* C20: after normalize the raw record is as it was before the call.
C20_NormalizePure ==
    resp.op = "normalize" => resp.out.raw = resp.raw

\* -------------------------------------------------------- reader claims
\* C21: reading an Iceberg table whose metadata files parse succeeds exactly
\* when at least one .metadata.json exists under metadata/, whether
\* version-hint.text is there or not and whether or not the file it names
\* exists; and the file read is one of them.
C21_IcebergLocateFallsBack ==
    (resp.op = "read" /\ resp.format = ICEBERG /\ ~resp.layout.corrupt) =>
        \* the .metadata.json objects under metadata/
        LET MetadataJsonFiles ==
                {k[2] : k \in {x \in resp.layout.keys :
                                  x[1] = "metadata/" /\ EndsWithMetadataJson(x[2])}}
        IN /\ resp.rd.ok <=> MetadataJsonFiles # {}
           /\ resp.rd.ok => resp.rd.raw.metadata_file[1] \in MetadataJsonFiles

\* C22: reading a Hudi table with no .hoodie/hoodie.properties fails, and
\* discover stores nothing for it.
C22_HudiPropertiesRequired ==
    (/\ resp.op \in {"read", "discover"}
     /\ resp.format = HUDI
     /\ <<".hoodie/", "hoodie.properties">> \notin resp.layout.keys)
    => IF resp.op = "read" THEN ~resp.rd.ok
       ELSE ~resp.out.ok /\ db.tables = {}

\* C23: reading a Hudi table never fails over its commits: the schema is
\* that of the newest commit that carries one, commits that cannot be
\* fetched or parsed being skipped, and empty when no commit carries one.
C23_HudiSchemaRecovery ==
    (resp.op = "read" /\ resp.format = HUDI) =>
        /\ resp.rd.ok
        /\ LET commits == resp.layout.commits
               carrying == {i \in 1..Len(commits) : commits[i].kind = "schema"}
               \* the fields of the newest commit that carries a schema
               NewestSchema ==
                   IF carrying = {} THEN <<>>
                   ELSE commits[CHOOSE i \in carrying : \A j \in carrying : j <= i].fields
           IN resp.rd.raw.schema = NewestSchema

\* C24: reading a Delta table whose latest log file has a truncated line,
\* or whose log carries no schemaString or one that does not parse, fails.
C24_DeltaCorruptFails ==
    (/\ resp.op = "read" /\ resp.format = DELTA
     /\ \/ resp.layout.corrupt
        \/ resp.layout.earlier = <<>> /\ resp.layout.schemaString # "ok")
    => ~resp.rd.ok

\* the metaData actions of the table's log file, in order
MetaDataBodies(l) ==
    LET entries == DeltaLogEntries(l)
        metas == SelectSeq(entries, LAMBDA e : e.kind = "metaData")
    IN [i \in 1..Len(metas) |-> metas[i].body]

\* raw is the record that reading log file l gives when its merged metaData
\* is body and its protocol that of the last protocol action (None when
\* there is none)
RawReflects(raw, body, l) ==
    /\ raw.schema = (IF body.schemaString # None /\ body.schemaString[1].parses
                     THEN body.schemaString[1].fields ELSE <<>>)
    /\ raw.partition_names =
          (IF body.partitionColumns # None THEN body.partitionColumns[1] ELSE <<>>)
    /\ ("table.name" \in DOMAIN raw.properties) = (body.name # None)
    /\ body.name # None => raw.properties["table.name"] = body.name[1]
    /\ ("table.description" \in DOMAIN raw.properties) = (body.description # None)
    /\ body.description # None
          => raw.properties["table.description"] = body.description[1]
    /\ LET configuration == IF body.configuration # None THEN body.configuration[1]
                            ELSE EmptyProps
       IN /\ DOMAIN raw.properties \ {"table.name", "table.description"}
                = DOMAIN configuration \ {"table.name", "table.description"}
          /\ \A k \in DOMAIN configuration \ {"table.name", "table.description"} :
                raw.properties[k] = configuration[k]
    /\ LET protocols == SelectSeq(DeltaLogEntries(l), LAMBDA e : e.kind = "protocol")
       IN raw.protocol = IF protocols = <<>> THEN None
                         ELSE Some(protocols[Len(protocols)].body)

RECURSIVE LastCarrying(_, _)
LastCarrying(bodies, k) ==
    IF bodies = <<>> THEN None
    ELSE IF bodies[Len(bodies)][k] # None THEN bodies[Len(bodies)][k]
    ELSE LastCarrying(SubSeq(bodies, 1, Len(bodies) - 1), k)

C26_DeltaHighestVersion ==
    \* the versions of the log files {version:020d}.json under _delta_log/
    LET LogVersions == {v \in 0..(Len(LogFiles) - 1) :
                          <<"_delta_log/", LogFiles[v + 1]>> \in resp.layout.keys}
    IN (resp.op = "read" /\ resp.format = DELTA /\ LogVersions # {})
       => LET highest == CHOOSE v \in LogVersions : \A w \in LogVersions : w <= v
          IN IF resp.layout.corrupt THEN ~resp.rd.ok
             ELSE /\ resp.rd.ok
                  /\ resp.rd.raw.version = Some(highest)
                  /\ resp.rd.raw.metadata_file = Some(LogFiles[highest + 1])

\* C27: the partition fields of an Iceberg raw record are those of the
\* partition-specs entry whose spec-id is default-spec-id, and those of the
\* top-level partition-spec only when there is no such entry.
C27_IcebergDefaultSpec ==
    (resp.op = "read" /\ resp.format = ICEBERG /\ resp.rd.ok) =>
        LET l == resp.layout
            hits == {i \in 1..Len(l.partitionSpecs) :
                        l.partitionSpecs[i].spec_id = l.defaultSpecId}
        IN resp.rd.raw.partition_spec =
              IF hits # {} THEN l.partitionSpecs[CHOOSE i \in hits : TRUE].fields
              ELSE IF l.topLevelSpec = "list" THEN l.specIds
              ELSE <<>>

\* C28: discover fails on an Iceberg table whose partition spec names a
\* source-id that no schema field has.
C28_DanglingSourceId ==
    (/\ resp.op = "discover" /\ resp.format = ICEBERG
     /\ resp.layout.topLevelSpec = "list"
     /\ \E i \in 1..Len(resp.layout.specIds) :
           \A j \in 1..Len(resp.layout.fields) :
              resp.layout.fields[j].id # resp.layout.specIds[i])
    => ~resp.out.ok

\* -------------------------------------------------------- catalog claims
\* C29: every stored row has created_at <= updated_at, and a save of a
\* stored table_name never lowers the row's updated_at.
C29_TimestampOrder ==
    [][/\ \A r \in db'.tables : r.created_at[1] <= r.updated_at[1]
       /\ \A r \in db.tables : \A q \in db'.tables :
             q.table_name = r.table_name => r.updated_at[1] <= q.updated_at[1]
      ]_vars

\* C30 (as claimed): after discover(u1) and discover(u2), u1 # u2, both
\* successful, get returns a row whose location is u1 and a row whose
\* location is u2.
C30_BothLocationsKept ==
    resp.op = "got" =>
        /\ resp.got1 # None /\ resp.got1[1].location = resp.u1
        /\ resp.got2 # None /\ resp.got2[1].location = resp.u2

\* C30 (amended): after both discoveries succeeded, get returns a row with
\* location u1 and a row with location u2 when the two normalized table
\* names differ; when they are equal the catalog holds one row of that name,
\* the second discovery's, with location u2, and no row with location u1.
C30_LocationsKeptPerName ==
    resp.op = "got" =>
        /\ resp.got2 # None /\ resp.got2[1].location = resp.u2
        /\ IF resp.out1.name # resp.out2.name
           THEN resp.got1 # None /\ resp.got1[1].location = resp.u1
           ELSE /\ resp.got1 = resp.got2
                /\ Cardinality(db.tables) = 1
                /\ \A r \in db.tables : r.location # resp.u1

C30_Witness ==
    /\ resp.op = "got"
    /\ resp.out1.name = resp.out2.name
    /\ FinalSegment(resp.u1) = FinalSegment(resp.u2)
    /\ resp.l1 = IcebergTable /\ resp.l2 = IcebergTable
    /\ resp.got1[1].location = resp.u2

====
